---- MODULE Spec2Model ----
(***************************************************************************)
(* Model of scripts/dev-cli.py (class DevOpsCLI): the Helm rollback        *)
(* operation, the collaborators it shells out to, and the target-revision  *)
(* resolution embedded in it.                                              *)
(*                                                                         *)
(* One invocation is single-threaded and synchronous, so an operation is   *)
(* one action.  Everything the operation prints through self.log is kept,  *)
(* in order, in `out`; run_command logs "Executing: ..." before it spawns  *)
(* the process, so the issued commands are the "Executing" entries of out. *)
(* The collaborators (aws, helm, kubectl, the terminal) are scripted by    *)
(* `world`: one response per collaborator, fixed for the invocation.       *)
(*                                                                         *)
(* Spec        one call of rollback_release, over its arguments and every  *)
(*             combination of collaborator responses.                      *)
(* SpecResolve the history check and target resolution of rollback_release *)
(*             as a function of the fetched history and the revision.      *)
(***************************************************************************)
EXTENDS Integers, Sequences, FiniteSets, TLC

VARIABLES
    phase,   \* "idle" before the operation is invoked, "done" after it returned
    args,    \* the arguments of the invocation
    world,   \* the scripted collaborators
    out,     \* the log lines emitted so far, oldest first
    exc,     \* the exception that escaped the operation, "none" if none did
    res      \* what the operation returned: None, or Some(value)

vars == <<phase, args, world, out, exc, res>>

----------------------------------------------------------------------------
(* Optional[T]: None is the empty sequence, a value v is <<v>>.            *)
None == <<>>
Some(v) == <<v>>
IsNone(o) == o = <<>>
Val(o) == o[1]

(* DevOpsCLI.__init__ *)
app_name == "sample-app"
valid_environments == <<"dev", "stage", "prod">>
cluster_prefix == "demo-eks"
region == "us-west-2"

InSeq(x, s) == \E i \in 1..Len(s) : s[i] = x

----------------------------------------------------------------------------
(* The bytes a process writes are abstracted to what the code does with    *)
(* them: "blank" is whitespace only, "garbage" is text json.loads rejects, *)
(* "json" is a document json.loads accepts, whose value is `value`.        *)
Stdout(kind, value) == [kind |-> kind, value |-> value]

(* str.strip() *)
strip(s) == IF s.kind = "blank" THEN Stdout("empty", <<>>) ELSE s

(* truth value of a str *)
Truthy(s) == s.kind # "empty"

(* json.loads: the parsed value, or JSONDecodeError *)
json_loads(s) ==
    IF s.kind = "json" THEN [ok |-> TRUE, value |-> s.value]
    ELSE [ok |-> FALSE, value |-> <<>>]

(* One line of self.log: the level, the message template, its arguments.   *)
Line(level, msg, detail) == [level |-> level, msg |-> msg, detail |-> detail]

(* The state threaded through an operation: the log and a raised exception *)
St(o, e) == [out |-> o, exc |-> e]

log(st, message, detail, level) ==
    [st EXCEPT !.out = Append(@, Line(level, message, detail))]

Raise(st, e) == [st EXCEPT !.exc = e]

----------------------------------------------------------------------------
(* subprocess.run(command, ...) against the scripted collaborators: the    *)
(* response is chosen by the program and sub-command that is run.          *)
Respond(command) ==
    CASE command[1] = "aws" -> world.bind
      [] command[1] = "helm" /\ command[2] = "list" -> world.list
      [] command[1] = "helm" /\ command[2] = "history" -> world.history
      [] command[1] = "helm" /\ command[2] = "rollback" -> world.rollback
      [] command[1] = "kubectl" /\ command[2] = "rollout" -> world.wait
      [] command[1] = "kubectl" /\ command[2] = "get" -> world.pods
      [] OTHER -> world.logs

(* run_command: returns [st, ret]; ret is None or Some(stdout).            *)
run_command(st, command, capture_output) ==
    LET st1 == log(st, "Executing", command, "INFO")
        r == Respond(command)
    IN  CASE r.exit = "ok" ->
               [st |-> st1,
                ret |-> IF capture_output THEN Some(strip(r.stdout)) ELSE None]
          [] r.exit = "nonzero" ->
               LET st2 == log(st1, "Command failed", command, "ERROR")
                   st3 == IF capture_output /\ Truthy(r.stdout)
                          THEN log(st2, "Output", r.stdout, "ERROR") ELSE st2
                   st4 == IF capture_output /\ r.stderr
                          THEN log(st3, "Error", <<>>, "ERROR") ELSE st3
               IN  [st |-> st4, ret |-> None]
          [] r.exit = "notfound" ->
               [st |-> log(st1, "Command not found", command[1], "ERROR"),
                ret |-> None]
          [] r.exit = "interrupt" ->
               [st |-> Raise(st1, "KeyboardInterrupt"), ret |-> None]
          [] OTHER ->
               [st |-> Raise(st1, "OSError"), ret |-> None]

(* subprocess.run(command) called directly, without check=True: the exit   *)
(* status is ignored and every exception propagates.  The call is kept in  *)
(* the log as a line of level SPAWN.                                       *)
spawn(st, command) ==
    LET st1 == log(st, "subprocess.run", command, "SPAWN")
        r == Respond(command)
    IN  CASE r.exit \in {"ok", "nonzero"} -> st1
          [] r.exit = "notfound" -> Raise(st1, "FileNotFoundError")
          [] r.exit = "interrupt" -> Raise(st1, "KeyboardInterrupt")
          [] OTHER -> Raise(st1, "OSError")

(* validate_environment with a fault: the error is logged but the caller   *)
(* is told to go on                                                        *)
validate_environment_GoesOn(st, environment) ==
    IF ~InSeq(environment, valid_environments)
    THEN [st |-> log(st, "Invalid environment", environment, "ERROR"),
          ret |-> TRUE]
    ELSE [st |-> st, ret |-> TRUE]

(* validate_environment *)
validate_environment(st, environment) ==
    IF ~InSeq(environment, valid_environments)
    THEN [st |-> log(st, "Invalid environment", environment, "ERROR"),
          ret |-> FALSE]
    ELSE [st |-> st, ret |-> TRUE]

(* update_kubeconfig with a fault: the result of the command is ignored *)
update_kubeconfig_AlwaysTrue(st, environment) ==
    LET cluster_name == cluster_prefix \o "-" \o environment
        command == <<"aws", "eks", "update-kubeconfig",
                     "--region", region, "--name", cluster_name>>
        r == run_command(st, command, FALSE)
    IN  [st |-> r.st, ret |-> TRUE]

(* update_kubeconfig with a fault: a command without a result is issued a  *)
(* second time                                                             *)
update_kubeconfig_Retry(st, environment) ==
    LET cluster_name == cluster_prefix \o "-" \o environment
        command == <<"aws", "eks", "update-kubeconfig",
                     "--region", region, "--name", cluster_name>>
        r == run_command(st, command, FALSE)
        again == IF r.st.exc = "none" /\ IsNone(r.ret)
                 THEN run_command(r.st, command, FALSE)
                 ELSE r
    IN  [st |-> again.st, ret |-> ~IsNone(again.ret)]

(* update_kubeconfig *)
update_kubeconfig(st, environment) ==
    LET cluster_name == cluster_prefix \o "-" \o environment
        command == <<"aws", "eks", "update-kubeconfig",
                     "--region", region, "--name", cluster_name>>
        r == run_command(st, command, FALSE)
    IN  [st |-> r.st, ret |-> ~IsNone(r.ret)]

Raised(st) == st.exc # "none"

(* `if x:` for x an Optional str *)
TruthyOut(o) == ~IsNone(o) /\ Truthy(Val(o))

(* `if not x:` for x None or a list *)
Falsy(o) == IsNone(o) \/ Val(o) = <<>>

(* get_pods with a fault: an empty list of pods is returned as None *)
get_pods_EmptyIsNone(st, environment, namespace) ==
    LET ns == IF IsNone(namespace) THEN environment ELSE Val(namespace)
        command == <<"kubectl", "get", "pods", "-n", ns,
                     "-l", "app.kubernetes.io/name=" \o app_name,
                     "-o", "json">>
        r == run_command(st, command, TRUE)
    IN  IF Raised(r.st) THEN [st |-> r.st, ret |-> None]
        ELSE IF TruthyOut(r.ret)
        THEN LET data == json_loads(Val(r.ret))
             IN  IF data.ok
                 THEN [st |-> r.st,
                       ret |-> IF IsNone(data.value.items)
                                  \/ Val(data.value.items) = <<>>
                               THEN None
                               ELSE Some(Val(data.value.items))]
                 ELSE [st |-> log(r.st, "Failed to parse pod information",
                                  <<>>, "ERROR"),
                       ret |-> None]
        ELSE [st |-> r.st, ret |-> None]

(* get_pods: ret is None or Some(list of pods) *)
get_pods(st, environment, namespace) ==
    LET ns == IF IsNone(namespace) THEN environment ELSE Val(namespace)
        command == <<"kubectl", "get", "pods", "-n", ns,
                     "-l", "app.kubernetes.io/name=" \o app_name,
                     "-o", "json">>
        r == run_command(st, command, TRUE)
    IN  IF Raised(r.st) THEN [st |-> r.st, ret |-> None]
        ELSE IF TruthyOut(r.ret)
        THEN LET data == json_loads(Val(r.ret))
             IN  IF data.ok
                 THEN [st |-> r.st,
                       ret |-> Some(IF IsNone(data.value.items) THEN <<>>
                                    ELSE Val(data.value.items))]
                 ELSE [st |-> log(r.st, "Failed to parse pod information",
                                  <<>>, "ERROR"),
                       ret |-> None]
        ELSE [st |-> r.st, ret |-> None]

(* get_helm_releases: ret is None or Some(list of releases) *)
get_helm_releases(st, environment, namespace) ==
    LET ns == IF IsNone(namespace) THEN environment ELSE Val(namespace)
        command == <<"helm", "list", "-n", ns, "-o", "json">>
        r == run_command(st, command, TRUE)
    IN  IF Raised(r.st) THEN [st |-> r.st, ret |-> None]
        ELSE IF TruthyOut(r.ret)
        THEN LET data == json_loads(Val(r.ret))
             IN  IF data.ok
                 THEN [st |-> r.st, ret |-> Some(data.value)]
                 ELSE [st |-> log(r.st, "Failed to parse Helm releases",
                                  <<>>, "ERROR"),
                       ret |-> None]
        ELSE [st |-> r.st, ret |-> None]

(* get_helm_history: ret is None or Some(list of revision records) *)
get_helm_history(st, environment, namespace) ==
    LET ns == IF IsNone(namespace) THEN environment ELSE Val(namespace)
        command == <<"helm", "history", app_name, "-n", ns, "-o", "json">>
        r == run_command(st, command, TRUE)
    IN  IF Raised(r.st) THEN [st |-> r.st, ret |-> None]
        ELSE IF TruthyOut(r.ret)
        THEN LET data == json_loads(Val(r.ret))
             IN  IF data.ok
                 THEN [st |-> r.st, ret |-> Some(data.value)]
                 ELSE [st |-> log(r.st, "Failed to parse Helm history",
                                  <<>>, "ERROR"),
                       ret |-> None]
        ELSE [st |-> r.st, ret |-> None]

----------------------------------------------------------------------------
(* sorted(history, key=lambda x: x["revision"], reverse=True): a stable    *)
(* sort, entries of equal revision keep the order they had in history.     *)
RECURSIVE InsertAsc(_, _)
InsertAsc(x, s) ==
    IF s = <<>> THEN <<x>>
    ELSE IF Head(s).revision <= x.revision
         THEN <<Head(s)>> \o InsertAsc(x, Tail(s))
         ELSE <<x>> \o s

RECURSIVE InsertDesc(_, _)
InsertDesc(x, s) ==
    IF s = <<>> THEN <<x>>
    ELSE IF Head(s).revision >= x.revision
         THEN <<Head(s)>> \o InsertDesc(x, Tail(s))
         ELSE <<x>> \o s

RECURSIVE SortInto(_, _, _)
SortInto(h, acc, desc) ==
    IF h = <<>> THEN acc
    ELSE SortInto(Tail(h),
                  IF desc THEN InsertDesc(Head(h), acc)
                  ELSE InsertAsc(Head(h), acc),
                  desc)

(* the sort with a fault: reverse=True is left out *)
sorted_history_Ascending(history) == SortInto(history, <<>>, FALSE)

sorted_history(history) == SortInto(history, <<>>, TRUE)

(* [h["revision"] for h in history] *)
valid_revisions(history) == [i \in 1..Len(history) |-> history[i].revision]

Resolved(t) == [ok |-> TRUE, target |-> t, msg |-> "", available |-> <<>>]
Unresolved(m, a) == [ok |-> FALSE, target |-> 0, msg |-> m, available |-> a]

(* rollback_release, from the history that was fetched to target_revision: *)
(* history is None or Some(list), revision is None or Some(int).           *)
ResolveTarget(history, revision) ==
    IF Falsy(history)
    THEN Unresolved("Could not get release history", <<>>)
    ELSE LET h == Val(history) IN
         IF Len(h) < 2 /\ IsNone(revision)
         THEN Unresolved("No previous revisions available for rollback", <<>>)
         ELSE IF IsNone(revision)
         THEN IF Len(sorted_history(h)) >= 2
              THEN Resolved(sorted_history(h)[2].revision)
              ELSE Unresolved("No previous revision found", <<>>)
         ELSE IF ~InSeq(Val(revision), valid_revisions(h))
              THEN Unresolved("Revision not found", valid_revisions(h))
              ELSE Resolved(Val(revision))

----------------------------------------------------------------------------
(* str.lower() on the answers the terminal is scripted with *)
lower(s) ==
    CASE s = "Y" -> "y"
      [] s = "N" -> "n"
      [] OTHER -> s

RECURSIVE LogPods(_, _)
LogPods(st, pods) ==
    IF pods = <<>> THEN st
    ELSE LogPods(log(st, "pod", <<Head(pods).name, Head(pods).phase>>, "INFO"),
                 Tail(pods))

(* rollback_release, "Perform rollback" to the end. namespace is a str. *)
rollback_perform(st, environment, namespace, target_revision) ==
    LET command == <<"helm", "rollback", app_name,
                     ToString(target_revision), "-n", namespace>>
        st1 == log(st, "Executing rollback...", <<>>, "INFO")
        r == run_command(st1, command, FALSE)
    IN  IF Raised(r.st) THEN r.st
        ELSE IF ~IsNone(r.ret)
        THEN LET st2 == log(r.st, "Rollback initiated successfully", <<>>,
                            "SUCCESS")
                 st3 == log(st2, "Waiting for deployment to be ready...", <<>>,
                            "INFO")
                 wait_command == <<"kubectl", "rollout", "status",
                                   "deployment/" \o app_name,
                                   "-n", namespace, "--timeout=300s">>
                 w == run_command(st3, wait_command, FALSE)
             IN  IF Raised(w.st) THEN w.st
                 ELSE IF ~IsNone(w.ret)
                 THEN LET st4 == log(w.st, "Rollback completed successfully",
                                     <<>>, "SUCCESS")
                          p == get_pods(st4, environment, Some(namespace))
                      IN  IF Raised(p.st) THEN p.st
                          ELSE IF ~Falsy(p.ret)
                          THEN LogPods(log(p.st, "Current pods:", <<>>, "INFO"),
                                       Val(p.ret))
                          ELSE p.st
                 ELSE log(w.st,
                          "Rollback may have failed - check deployment status",
                          <<>>, "WARNING")
        ELSE log(r.st, "Rollback failed", <<>>, "ERROR")

(* rollback_release, "Confirm rollback": input() writes its prompt (kept in *)
(* the log at level PROMPT) and returns world.answer, or raises            *)
(* KeyboardInterrupt when the answer is "INTERRUPT".                       *)
rollback_confirm(st, environment, namespace, target_revision, confirm) ==
    IF ~confirm
    THEN LET st1 == log(st, "Proceed with rollback? (y/N): ", <<>>, "PROMPT")
         IN  IF world.answer = "INTERRUPT"
             THEN log(st1, "Operation cancelled", <<>>, "WARNING")
             ELSE IF lower(world.answer) # "y"
             THEN log(st1, "Rollback cancelled", <<>>, "WARNING")
             ELSE rollback_perform(st1, environment, namespace,
                                   target_revision)
    ELSE rollback_perform(st, environment, namespace, target_revision)

(* next((h for h in history if h["revision"] == target_revision), None) *)
target_history(history, target_revision) ==
    LET hits == SelectSeq(history, LAMBDA h : h.revision = target_revision)
    IN  IF hits = <<>> THEN None ELSE Some(Head(hits))

(* rollback_release, "Get history" to "Show rollback details" *)
rollback_resolve(st, environment, namespace, revision, confirm) ==
    LET hr == get_helm_history(st, environment, Some(namespace))
        t == ResolveTarget(hr.ret, revision)
    IN  IF Raised(hr.st) THEN hr.st
        ELSE IF ~t.ok THEN log(hr.st, t.msg, t.available, "ERROR")
        ELSE LET st1 == log(hr.st, "Target revision", t.target, "INFO")
                 th == target_history(Val(hr.ret), t.target)
                 st2 == IF ~IsNone(th)
                        THEN log(log(st1, "Rolling back to",
                                     Val(th).description, "INFO"),
                                 "Updated", Val(th).updated, "INFO")
                        ELSE st1
             IN  rollback_confirm(st2, environment, namespace, t.target,
                                  confirm)

(* for release in releases: if release["name"] == self.app_name: ... break *)
app_release(releases) ==
    LET hits == SelectSeq(releases, LAMBDA r : r.name = app_name)
    IN  IF hits = <<>> THEN None ELSE Some(Head(hits))

(* rollback_release, "Get current release information" *)
rollback_find_release(st, environment, namespace, revision, confirm) ==
    LET rr == get_helm_releases(st, environment, Some(namespace))
    IN  IF Raised(rr.st) THEN rr.st
        ELSE IF Falsy(rr.ret)
        THEN log(rr.st, "No Helm releases found", <<>>, "ERROR")
        ELSE IF IsNone(app_release(Val(rr.ret)))
        THEN log(rr.st, "Helm release not found", app_name, "ERROR")
        ELSE rollback_resolve(
                 log(rr.st, "Current revision",
                     Val(app_release(Val(rr.ret))).revision, "INFO"),
                 environment, namespace, revision, confirm)

(* rollback_release: the log and the escaped exception it ends with *)
rollback_release(st, environment, revision, confirm, namespace) ==
    LET v == validate_environment(st, environment)
        ns == IF IsNone(namespace) THEN environment ELSE Val(namespace)
        st1 == log(v.st, "Initiating rollback", environment, "INFO")
        k == update_kubeconfig(st1, environment)
    IN  IF ~v.ret THEN v.st
        ELSE IF Raised(k.st) THEN k.st
        ELSE IF ~k.ret THEN k.st
        ELSE rollback_find_release(k.st, environment, ns, revision, confirm)

----------------------------------------------------------------------------
(* int(s) on the answers the terminal is scripted with: None stands for    *)
(* ValueError                                                              *)
int(s) ==
    CASE s = "0" -> Some(0)
      [] s = "1" -> Some(1)
      [] s = " 2 " -> Some(2)
      [] s = "7" -> Some(7)
      [] s = "-1" -> Some(-1)
      [] OTHER -> None

(* tail_logs, "Build kubectl logs command" to the end *)
tail_logs_stream(st, pod_name, namespace, follow, lines) ==
    LET command == <<"kubectl", "logs", pod_name, "-n", namespace,
                     "--tail", ToString(lines)>>
                   \o (IF follow THEN <<"-f">> ELSE <<>>)
        st1 == log(st, "Starting log tail for pod", pod_name, "INFO")
        st2 == log(st1, "Press Ctrl+C to stop", <<>>, "INFO")
        s == IF follow THEN spawn(st2, command)
             ELSE LET r == run_command(st2, command, TRUE)
                  IN  IF ~Raised(r.st) /\ TruthyOut(r.ret)
                      THEN log(r.st, "output", Val(r.ret), "STDOUT")
                      ELSE r.st
    IN  IF s.exc = "KeyboardInterrupt"
        THEN log([s EXCEPT !.exc = "none"], "Log tailing stopped", <<>>, "INFO")
        ELSE s

RECURSIVE LogChoices(_, _, _)
LogChoices(st, pods, i) ==
    IF i >= Len(pods) THEN st
    ELSE LogChoices(log(st, "choice",
                        <<i, pods[i + 1].name, pods[i + 1].phase>>, "INFO"),
                    pods, i + 1)

(* tail_logs, "Get pods if no specific pod is provided": input() writes    *)
(* its prompt (level PROMPT) and returns world.select, or raises           *)
(* KeyboardInterrupt when that is "INTERRUPT".                             *)
tail_logs_select(st, environment, namespace, follow, lines) ==
    LET p == get_pods(st, environment, Some(namespace))
    IN  IF Raised(p.st) THEN p.st
        ELSE IF Falsy(p.ret) THEN log(p.st, "No pods found", <<>>, "ERROR")
        ELSE LET pods == Val(p.ret) IN
             IF Len(pods) = 1
             THEN tail_logs_stream(log(p.st, "Using pod", pods[1].name, "INFO"),
                                   pods[1].name, namespace, follow, lines)
             ELSE LET st1 == LogChoices(log(p.st, "Multiple pods found:", <<>>,
                                            "INFO"),
                                        pods, 0)
                      st2 == log(st1, "Select pod", Len(pods) - 1, "PROMPT")
                      choice == int(world.select)
                  IN  IF world.select = "INTERRUPT" \/ IsNone(choice)
                      THEN log(st2, "Operation cancelled", <<>>, "WARNING")
                      ELSE IF 0 <= Val(choice) /\ Val(choice) < Len(pods)
                      THEN tail_logs_stream(st2, pods[Val(choice) + 1].name,
                                            namespace, follow, lines)
                      ELSE log(st2, "Invalid selection", <<>>, "ERROR")

(* tail_logs: the log and the escaped exception it ends with *)
tail_logs(st, environment, follow, lines, pod_name, namespace) ==
    LET v == validate_environment(st, environment)
        ns == IF IsNone(namespace) THEN environment ELSE Val(namespace)
        st1 == log(v.st, "Tailing logs", environment, "INFO")
        k == update_kubeconfig(st1, environment)
    IN  IF ~v.ret THEN v.st
        ELSE IF Raised(k.st) THEN k.st
        ELSE IF ~k.ret THEN k.st
        ELSE IF IsNone(pod_name)
        THEN tail_logs_select(k.st, environment, ns, follow, lines)
        ELSE tail_logs_stream(k.st, Val(pod_name), ns, follow, lines)

----------------------------------------------------------------------------
(* main(): the log and the exit status of the process.  a is the parsed    *)
(* command line; a.command = "none" stands for a command line without a    *)
(* subcommand.  parse_args() ends the process with status 2 when the       *)
(* environment is not one of the choices.                                  *)
choices == <<"dev", "stage", "prod">>

(* main, the except clauses: st is what the operation ended with *)
main_except(st) ==
    CASE st.exc = "none" -> [st |-> st, status |-> 0]
      [] st.exc = "KeyboardInterrupt" ->
           [st |-> log([st EXCEPT !.exc = "none"],
                       "Operation interrupted", <<>>, "PRINT"),
            status |-> 0]
      [] OTHER ->
           [st |-> log([st EXCEPT !.exc = "none"],
                       "Unexpected error", st.exc, "PRINT"),
            status |-> 1]

main(a) ==
    IF a.command = "none"
    THEN [st |-> log(St(<<>>, "none"), "print_help", <<>>, "PRINT"),
          status |-> 0]
    ELSE IF ~InSeq(a.environment, choices)
    THEN [st |-> log(St(<<>>, "none"), "invalid choice", a.environment,
                     "USAGE"),
          status |-> 2]
    ELSE IF a.command = "logs"
    THEN main_except(tail_logs(St(<<>>, "none"), a.environment, a.follow,
                               a.lines, a.pod, a.namespace))
    ELSE main_except(rollback_release(St(<<>>, "none"), a.environment,
                                      a.revision, a.confirm, a.namespace))

----------------------------------------------------------------------------
(* What a spawned process can do: exit 0 with some output, exit non-zero,  *)
(* not exist (FileNotFoundError), fail to start with another OSError, or   *)
(* be interrupted from the keyboard (KeyboardInterrupt); run_command       *)
(* catches neither of the last two.                                        *)
Empty == Stdout("empty", <<>>)
Json(v) == Stdout("json", v)
ExecOk(o) == [exit |-> "ok", stdout |-> o, stderr |-> FALSE]
ExecFail(kind) == [exit |-> kind, stdout |-> Empty, stderr |-> kind = "nonzero"]

Release(n, r) == [name |-> n, revision |-> r]
Record(r) == [revision |-> r, description |-> "d", updated |-> "u"]
Pod(n, p) == [name |-> n, phase |-> p]

Environments == {"dev", "prod", "qa"}
Namespaces == {None, Some("team-a")}
Revisions == {None, Some(1), Some(5)}
Answers == {"Y", "n", "INTERRUPT"}

BindResponses ==
    {ExecOk(Empty), ExecFail("nonzero"), ExecFail("notfound"),
     ExecFail("oserror")}
ListResponses ==
    {ExecFail("nonzero"), ExecOk(Stdout("blank", <<>>)),
     ExecOk(Stdout("garbage", <<>>)), ExecOk(Json(<<>>)),
     ExecOk(Json(<<Release("other-app", 4)>>)),
     ExecOk(Json(<<Release("other-app", 4), Release(app_name, 2)>>))}
HistoryResponses ==
    {ExecFail("nonzero"), ExecOk(Json(<<>>)), ExecOk(Json(<<Record(1)>>)),
     ExecOk(Json(<<Record(2), Record(1)>>)),
     ExecOk(Json(<<Record(1), Record(3)>>)),
     ExecOk(Json(<<Record(2), Record(2), Record(1)>>))}
StepResponses == {ExecOk(Empty), ExecFail("nonzero")}
PodResponses ==
    {ExecFail("nonzero"), ExecOk(Json([items |-> Some(<<>>)])),
     ExecOk(Json([items |-> Some(<<Pod("sample-app-1", "Running")>>)]))}

Args == [environment : Environments, revision : Revisions,
         confirm : BOOLEAN, namespace : Namespaces]

Worlds == [bind : BindResponses, list : ListResponses,
           history : HistoryResponses, rollback : StepResponses,
           wait : StepResponses, pods : PodResponses,
           logs : {ExecOk(Empty)}, answer : Answers, select : {"0"}]

Init ==
    /\ phase = "idle"
    /\ args \in Args
    /\ world \in Worlds
    /\ out = <<>>
    /\ exc = "none"
    /\ res = None

(* cli.rollback_release(environment, revision, confirm, namespace) *)
Rollback ==
    /\ phase = "idle"
    /\ LET st == rollback_release(St(<<>>, "none"), args.environment,
                                  args.revision, args.confirm, args.namespace)
       IN  /\ out' = st.out
           /\ exc' = st.exc
    /\ phase' = "done"
    /\ UNCHANGED <<args, world, res>>

Next == Rollback

Spec == Init /\ [][Next]_vars

----------------------------------------------------------------------------
(* Target resolution on its own: every history of at most MaxHist entries  *)
(* with revisions in 1..MaxRev (in any order, repeats included), or no     *)
(* history at all, against no explicit revision or an explicit 1..MaxRev+1 *)
MaxHist == 3
MaxRev == 3

Histories == UNION {[1..n -> {Record(r) : r \in 1..MaxRev}] : n \in 0..MaxHist}
HistoryInputs == {None} \cup {Some(h) : h \in Histories}
RevisionInputs == {None} \cup {Some(r) : r \in 1..(MaxRev + 1)}

InitResolve ==
    /\ phase = "idle"
    /\ args \in [history : HistoryInputs, revision : RevisionInputs]
    /\ world = None
    /\ out = <<>>
    /\ exc = "none"
    /\ res = None

Resolve ==
    /\ phase = "idle"
    /\ res' = Some(ResolveTarget(args.history, args.revision))
    /\ phase' = "done"
    /\ UNCHANGED <<args, world, out, exc>>

NextResolve == Resolve

SpecResolve == InitResolve /\ [][NextResolve]_vars

----------------------------------------------------------------------------
(* Reading the log of a run *)
IsCmd(l) == l.msg \in {"Executing", "subprocess.run"}
Logged(m) == \E i \in 1..Len(out) : out[i].msg = m
Final == out[Len(out)]

(* the stage a command belongs to *)
Stage(command) ==
    CASE command[1] = "aws" -> "bind"
      [] command[1] = "helm" -> command[2]
      [] command[1] = "kubectl" /\ command[2] = "rollout" -> "wait"
      [] command[1] = "kubectl" /\ command[2] = "get" -> "pods"
      [] OTHER -> "logs"

Issued(stage) ==
    \E i \in 1..Len(out) : IsCmd(out[i]) /\ Stage(out[i].detail) = stage

DoneReported == Logged("Rollback completed successfully")

(* a failure or cancellation report: an escaped exception, or a warning or *)
(* error line that precedes any report of completion                       *)
FailedReported ==
    \/ exc # "none"
    \/ \E i \in 1..Len(out) :
          /\ out[i].level \in {"ERROR", "WARNING"}
          /\ \A j \in 1..i : out[j].msg # "Rollback completed successfully"

(* the revisions of a history, and the second-highest of a set of them *)
RevSet(h) == {h[i].revision : i \in 1..Len(h)}
Max(S) == CHOOSE x \in S : \A y \in S : y <= x
SecondHighest(S) == Max(S \ {Max(S)})

----------------------------------------------------------------------------
(* Properties of target resolution (SpecResolve)                           *)

ResolvedHistory == phase = "done" /\ ~IsNone(args.history)

C5_ExplicitTargetIffInHistory ==
    (ResolvedHistory /\ ~IsNone(args.revision))
    => IF Val(args.revision) \in RevSet(Val(args.history))
       THEN Val(res).ok /\ Val(res).target = Val(args.revision)
       ELSE /\ ~Val(res).ok
            /\ Val(res).msg = "Revision not found"
            /\ RevSet([i \in 1..Len(Val(res).available) |->
                         [revision |-> Val(res).available[i]]])
                 = RevSet(Val(args.history))

(* C6: for every history with fewer than 2 entries (0 or 1) and no         *)
(* explicit target, resolution fails with NoPriorRevision ("No previous    *)
(* revisions available for rollback" / "No previous revision found").      *)
C6_ShortHistoryHasNoPriorRevision ==
    (ResolvedHistory /\ IsNone(args.revision) /\ Len(Val(args.history)) < 2)
    => /\ ~Val(res).ok
       /\ Val(res).msg \in {"No previous revisions available for rollback",
                            "No previous revision found"}

----------------------------------------------------------------------------
(* Properties of a rollback run (Spec)                                     *)

(* C7: every run ends having emitted exactly one terminal outcome, Done or *)
(* Failed: never both, never neither.                                      *)
C7_ExactlyOneTerminalOutcome ==
    phase = "done" => (DoneReported # FailedReported)

(* The collaborators are scripted so that every stage before the rollback  *)
(* command succeeds: a valid environment, a bind that exits 0, a release   *)
(* list holding the workload, a history the target resolves in, and a      *)
(* confirmation that is skipped or answered yes.                           *)
ParsedList(r) ==
    IF r.exit = "ok" /\ Truthy(strip(r.stdout)) /\ json_loads(strip(r.stdout)).ok
    THEN Some(json_loads(strip(r.stdout)).value)
    ELSE None

ScriptedToBind ==
    /\ InSeq(args.environment, valid_environments)
    /\ world.bind.exit = "ok"

ScriptedToPerform ==
    /\ ScriptedToBind
    /\ ~IsNone(ParsedList(world.list))
    /\ ~IsNone(app_release(Val(ParsedList(world.list))))
    /\ ResolveTarget(ParsedList(world.history), args.revision).ok
    /\ (args.confirm \/ (world.answer # "INTERRUPT" /\ lower(world.answer) = "y"))

(* C8: the final report tells a failed rollback command (a hard failure,   *)
(* error level) from a rollback command that succeeded but whose rollout   *)
(* wait failed or timed out (a warning, neither the hard failure nor the   *)
(* success).                                                               *)
C8_HardFailureVersusSoftWarning ==
    (phase = "done" /\ ScriptedToPerform)
    => /\ world.rollback.exit # "ok"
            => /\ Len(out) > 0
               /\ Final.level = "ERROR"
               /\ Final.msg = "Rollback failed"
       /\ (world.rollback.exit = "ok" /\ world.wait.exit # "ok")
            => /\ Len(out) > 0
               /\ Final.level = "WARNING"
               /\ ~Logged("Rollback failed")
               /\ ~DoneReported

(* a line that reports the failure of one of the stages bind, release      *)
(* lookup, history fetch, target resolution, confirmation, rollback        *)
StageFailure(l) ==
    \/ /\ l.msg = "Command failed"
       /\ Stage(l.detail) \in {"bind", "list", "history", "rollback"}
    \/ /\ l.msg = "Command not found"
       /\ l.detail \in {"aws", "helm"}
    \/ l.msg \in {"Failed to parse Helm releases", "No Helm releases found",
                  "Helm release not found", "Failed to parse Helm history",
                  "Could not get release history",
                  "No previous revisions available for rollback",
                  "No previous revision found", "Revision not found",
                  "Rollback cancelled", "Operation cancelled",
                  "Rollback failed"}

(* C9: Failed is absorbing: once one of the stages bind, release lookup,   *)
(* history fetch, target resolution, confirmation or rollback execution    *)
(* has failed, no collaborator command is issued later in the run and no   *)
(* success is reported; a run an exception escaped from ends with the      *)
(* command that raised it.                                                 *)
C9_FailedIsAbsorbing ==
    /\ \A i \in 1..Len(out) :
          StageFailure(out[i])
          => \A j \in (i + 1)..Len(out) :
                ~IsCmd(out[j]) /\ out[j].level # "SUCCESS"
    /\ exc # "none" => (Len(out) > 0 /\ IsCmd(Final))

(* the bind command was issued and failed, and the run is over *)
C9_Witness ==
    /\ phase = "done"
    /\ \E i \in 1..Len(out) :
          /\ out[i].msg \in {"Command failed", "Command not found"}
          /\ StageFailure(out[i])
    /\ Issued("bind")

(* What every run does: no command but the bind is ever issued and no      *)
(* completion is ever reported, because run_command returns None for a     *)
(* command whose output is not captured, whether or not it succeeded, and  *)
(* update_kubeconfig takes None for failure.                               *)
RunStopsAfterBind ==
    /\ \A i \in 1..Len(out) : IsCmd(out[i]) => Stage(out[i].detail) = "bind"
    /\ ~DoneReported
    /\ ~Logged("Rollback initiated successfully")

(* C10: when the release list is fetched and holds no release named after  *)
(* the workload (the empty list included), the run reports "release not    *)
(* found", which is not what it reports when the list call itself fails.   *)
C10_ReleaseNotFoundIsDistinct ==
    (phase = "done" /\ ScriptedToBind)
    => /\ (~IsNone(ParsedList(world.list))
             /\ IsNone(app_release(Val(ParsedList(world.list)))))
            => (Len(out) > 0 /\ Final.msg = "Helm release not found")
       /\ IsNone(ParsedList(world.list))
            => ~Logged("Helm release not found")

----------------------------------------------------------------------------
(* C11: a history in which two entries share a revision number makes the   *)
(* resolution fail, with or without an explicit target, rather than return *)
(* a target.                                                               *)
C11_DuplicateRevisionFailsFast ==
    (ResolvedHistory
       /\ Cardinality(RevSet(Val(args.history))) < Len(Val(args.history)))
    => ~Val(res).ok

----------------------------------------------------------------------------
(* Pod discovery on its own: one call of get_pods, over every response of  *)
(* `kubectl get pods`.                                                     *)
BaseWorld ==
    [bind |-> ExecOk(Empty), list |-> ExecOk(Json(<<>>)),
     history |-> ExecOk(Json(<<>>)), rollback |-> ExecOk(Empty),
     wait |-> ExecOk(Empty), pods |-> ExecOk(Json([items |-> Some(<<>>)])),
     logs |-> ExecOk(Empty), answer |-> "n", select |-> "0"]

PodList(n) == [i \in 1..n |-> Pod(app_name \o "-" \o ToString(i), "Running")]

DiscoveryResponses ==
    {ExecFail("nonzero"), ExecFail("notfound"), ExecFail("oserror"),
     ExecOk(Empty), ExecOk(Stdout("blank", <<>>)),
     ExecOk(Stdout("garbage", <<>>)), ExecOk(Json([items |-> None])),
     ExecOk(Json([items |-> Some(PodList(0))])),
     ExecOk(Json([items |-> Some(PodList(1))])),
     ExecOk(Json([items |-> Some(PodList(2))])),
     ExecOk(Json([items |-> Some(PodList(3))]))}

InitPods ==
    /\ phase = "idle"
    /\ args \in [environment : Environments, namespace : Namespaces]
    /\ world \in {[BaseWorld EXCEPT !.pods = p] : p \in DiscoveryResponses}
    /\ out = <<>>
    /\ exc = "none"
    /\ res = None

(* cli.get_pods(environment, namespace) *)
GetPods ==
    /\ phase = "idle"
    /\ LET r == get_pods(St(<<>>, "none"), args.environment, args.namespace)
       IN  /\ out' = r.st.out
           /\ exc' = r.st.exc
           /\ res' = r.ret
    /\ phase' = "done"
    /\ UNCHANGED <<args, world>>

NextPods == GetPods

SpecPods == InitPods /\ [][NextPods]_vars

(* the response of the cluster call is a well-formed document *)
WellFormed(r) == r.exit = "ok" /\ r.stdout.kind = "json"

PodsIn(r) == IF IsNone(r.stdout.value.items) THEN <<>>
             ELSE Val(r.stdout.value.items)

(* C12: when the cluster call succeeds with a well-formed response holding *)
(* zero pods, pod discovery returns the empty sequence, which is not its   *)
(* failure result (None); it returns the failure result only when the call *)
(* fails or the response is malformed.                                     *)
C12_EmptyDiscoveryIsNotFailure ==
    phase = "done"
    => /\ (WellFormed(world.pods) /\ PodsIn(world.pods) = <<>>)
            => (exc = "none" /\ res = Some(<<>>) /\ ~IsNone(res))
       /\ (exc = "none" /\ IsNone(res)) => ~WellFormed(world.pods)

(* the cluster answered a well-formed, empty list and get_pods returned [] *)
C12_Witness ==
    /\ phase = "done"
    /\ world.pods = ExecOk(Json([items |-> Some(<<>>)]))
    /\ res = Some(<<>>)

----------------------------------------------------------------------------
(* One call of tail_logs, over its arguments and every combination of      *)
(* collaborator responses.                                                 *)
Selections == {"0", "1", " 2 ", "7", "-1", "x", "INTERRUPT"}

LogResponses ==
    {ExecOk(Stdout("text", <<>>)), ExecOk(Empty), ExecFail("nonzero"),
     ExecFail("notfound"), ExecFail("interrupt")}

LogArgs == [environment : Environments, follow : BOOLEAN, lines : {100, 10},
            pod : {None, Some("sample-app-9")}, namespace : Namespaces]

LogWorlds ==
    {[BaseWorld EXCEPT !.bind = b, !.pods = p, !.logs = l, !.select = s] :
        b \in BindResponses, p \in DiscoveryResponses, l \in LogResponses,
        s \in Selections}

InitLogs ==
    /\ phase = "idle"
    /\ args \in LogArgs
    /\ world \in LogWorlds
    /\ out = <<>>
    /\ exc = "none"
    /\ res = None

(* cli.tail_logs(environment, follow, lines, pod_name, namespace) *)
Logs ==
    /\ phase = "idle"
    /\ LET st == tail_logs(St(<<>>, "none"), args.environment, args.follow,
                           args.lines, args.pod, args.namespace)
       IN  /\ out' = st.out
           /\ exc' = st.exc
    /\ phase' = "done"
    /\ UNCHANGED <<args, world, res>>

NextLogs == Logs

SpecLogs == InitLogs /\ [][NextLogs]_vars

(* What every call of tail_logs does: it stops after the bind, for the     *)
(* reason given at RunStopsAfterBind.                                      *)
LogsStopAfterBind ==
    \A i \in 1..Len(out) : IsCmd(out[i]) => Stage(out[i].detail) = "bind"

(* the pods the scripted discovery holds, and the index the scripted       *)
(* terminal selects among them                                             *)
Discovered == IF WellFormed(world.pods) THEN PodsIn(world.pods) ELSE <<>>
Selected == int(world.select)
SelectionInRange ==
    /\ world.select # "INTERRUPT"
    /\ ~IsNone(Selected)
    /\ 0 <= Val(Selected)
    /\ Val(Selected) < Len(Discovered)
Consulted == \E i \in 1..Len(out) : out[i].level = "PROMPT"
LogsTarget(pod) ==
    \E i \in 1..Len(out) :
        /\ IsCmd(out[i])
        /\ Stage(out[i].detail) = "logs"
        /\ out[i].detail[3] = pod

(* C13: with no explicit pod, a valid environment and a bind process that  *)
(* exits 0, a discovery of exactly one pod makes the logs command target   *)
(* that pod without the selection prompt, and a discovery of n >= 2 pods   *)
(* with a selected index i, 0 <= i < n, makes it target the pod at         *)
(* position i of the discovery result.                                     *)
C13_LogsTargetTheSelectedPod ==
    (phase = "done" /\ ScriptedToBind /\ IsNone(args.pod))
    => /\ Len(Discovered) = 1
            => (LogsTarget(Discovered[1].name) /\ ~Consulted)
       /\ (Len(Discovered) >= 2 /\ SelectionInRange)
            => LogsTarget(Discovered[Val(Selected) + 1].name)

(* an error or cancelled outcome of the log streamer: an escaped           *)
(* exception, or an error or warning line                                  *)
LogsFailedReported ==
    \/ exc # "none"
    \/ \E i \in 1..Len(out) : out[i].level \in {"ERROR", "WARNING"}

(* C14: with no explicit pod, a valid environment and a bind process that  *)
(* exits 0, the logs command is not issued and the run ends in an error or *)
(* cancelled outcome when discovery fails or holds no pod, or when several *)
(* pods are found and the selection is out of range, not a number or       *)
(* interrupted.                                                            *)
C14_NoLogsWithoutAPod ==
    (/\ phase = "done"
     /\ ScriptedToBind
     /\ IsNone(args.pod)
     /\ \/ Len(Discovered) = 0
        \/ Len(Discovered) >= 2 /\ ~SelectionInRange)
    => (~Issued("logs") /\ LogsFailedReported)

----------------------------------------------------------------------------
(* One run of the command-line program, over its command lines and the     *)
(* responses of the processes and of the terminal.                         *)
MainArgs ==
    {[command |-> "none"]}
    \cup [command : {"rollback"}, environment : Environments,
          revision : Revisions, confirm : BOOLEAN, namespace : Namespaces]
    \cup [command : {"logs"}, environment : Environments, follow : BOOLEAN,
          lines : {100}, pod : {None, Some("sample-app-9")},
          namespace : Namespaces]

MainWorlds ==
    [bind : BindResponses \cup {ExecFail("interrupt")},
     list : {ExecFail("nonzero"),
             ExecOk(Json(<<Release("other-app", 4), Release(app_name, 2)>>))},
     history : {ExecFail("nonzero"), ExecOk(Json(<<Record(2), Record(1)>>))},
     rollback : StepResponses,
     wait : {ExecOk(Empty)},
     pods : {ExecOk(Json([items |-> Some(PodList(1))])),
             ExecOk(Json([items |-> Some(PodList(2))]))},
     logs : {ExecOk(Stdout("text", <<>>))},
     answer : Answers,
     select : {"0", "INTERRUPT"}]

InitMain ==
    /\ phase = "idle"
    /\ args \in MainArgs
    /\ world \in MainWorlds
    /\ out = <<>>
    /\ exc = "none"
    /\ res = None

(* python dev-cli.py ...: res is the exit status of the process *)
Main ==
    /\ phase = "idle"
    /\ \E m \in {main(args)} :
           /\ out' = m.st.out
           /\ exc' = m.st.exc
           /\ res' = Some(m.status)
    /\ phase' = "done"
    /\ UNCHANGED <<args, world>>

NextMain == Main

SpecMain == InitMain /\ [][NextMain]_vars

(* What the exit status tells, in every run: 1 exactly when main printed   *)
(* "Unexpected error", 2 exactly when the command line was rejected.       *)
ExitStatusFollowsHandler ==
    phase = "done"
    => /\ Val(res) \in {0, 1, 2}
       /\ Val(res) = 1 <=> Logged("Unexpected error")
       /\ Val(res) = 2 <=> Logged("invalid choice")

(* a run in which the user is scripted to cancel: every stage before the   *)
(* prompt is scripted to succeed, and the answer at the confirmation       *)
(* prompt is not affirmative or is an interrupt, or the selection among    *)
(* several pods is interrupted                                             *)
ScriptedToCancel ==
    /\ args.command # "none"
    /\ ScriptedToBind
    /\ \/ /\ args.command = "rollback"
          /\ ~IsNone(ParsedList(world.list))
          /\ ~IsNone(app_release(Val(ParsedList(world.list))))
          /\ ResolveTarget(ParsedList(world.history), args.revision).ok
          /\ ~args.confirm
          /\ (world.answer = "INTERRUPT" \/ lower(world.answer) # "y")
       \/ /\ args.command = "logs"
          /\ IsNone(args.pod)
          /\ Len(Discovered) >= 2
          /\ world.select = "INTERRUPT"

WarningEmitted == \E i \in 1..Len(out) : out[i].level = "WARNING"

(* C15: a run that reports completion exits 0; a run in which the user is  *)
(* scripted to cancel exits 0 and emits a warning-level message; the exit  *)
(* status is 1 exactly when an exception reached main's handler.           *)
C15_ExitStatus ==
    phase = "done"
    => /\ DoneReported => Val(res) = 0
       /\ ScriptedToCancel => (Val(res) = 0 /\ WarningEmitted)
       /\ Val(res) = 1 <=> Logged("Unexpected error")

(* the namespace a command names after "-n", None when it names none *)
NamespaceOf(command) ==
    IF \E k \in 1..(Len(command) - 1) : command[k] = "-n"
    THEN Some(command[(CHOOSE k \in 1..(Len(command) - 1) :
                          command[k] = "-n") + 1])
    ELSE None

(* What the commands of a run of the program name: the bind names the      *)
(* cluster of the environment, and a command that names a namespace names  *)
(* the override, or the environment when there is none.  No run issues a   *)
(* command that names a namespace (RunStopsAfterBind, LogsStopAfterBind).  *)
CommandsNameEnvironment ==
    \A i \in 1..Len(out) :
        IsCmd(out[i])
        => /\ Stage(out[i].detail) = "bind"
                => out[i].detail[7] = cluster_prefix \o "-" \o args.environment
           /\ ~IsNone(NamespaceOf(out[i].detail))
                => NamespaceOf(out[i].detail)
                     = Some(IF IsNone(args.namespace) THEN args.environment
                            ELSE Val(args.namespace))

(* how many times a command of the stage was issued *)
TimesIssued(stage) ==
    Cardinality({i \in 1..Len(out) :
                    IsCmd(out[i]) /\ Stage(out[i].detail) = stage})

(* C17: in a run of the rollback operation each collaborator command is    *)
(* issued at most once, whether it failed or not.                          *)
C17_NoCommandIsReissued ==
    \A stage \in {"bind", "list", "history", "rollback", "wait", "pods"} :
        TimesIssued(stage) <= 1

(* a bind that failed and was issued exactly once *)
C17_Witness ==
    /\ phase = "done"
    /\ world.bind.exit = "nonzero"
    /\ Logged("Command failed")
    /\ TimesIssued("bind") = 1

(* the positions of the commands in the log, and the place of a stage in   *)
(* the order the operations give them                                      *)
Commands == {i \in 1..Len(out) : IsCmd(out[i])}
StageAt(i) == Stage(out[i].detail)
Rank(stage) ==
    CASE stage = "bind" -> 1
      [] stage = "list" -> 2
      [] stage = "history" -> 3
      [] stage = "rollback" -> 4
      [] stage = "wait" -> 5
      [] stage = "pods" -> 6
      [] OTHER -> 7
Before(stage) ==
    CASE stage = "list" -> "bind"
      [] stage = "history" -> "list"
      [] stage = "rollback" -> "history"
      [] stage = "wait" -> "rollback"
      [] OTHER -> "wait"

(* C18: in every run of the program the first command issued is the bind,  *)
(* no other command is issued unless the bind process exited 0, and the    *)
(* commands appear in the order bind, release list, release history,       *)
(* rollback, rollout status, pod discovery (then logs); in a rollback a    *)
(* stage's command is issued only after the command of the stage before    *)
(* it was issued and its process exited 0.                                 *)
C18_StagesInOrder ==
    /\ \A i \in Commands :
          \/ StageAt(i) = "bind" /\ \A j \in Commands : i <= j
          \/ /\ StageAt(i) # "bind"
             /\ world.bind.exit = "ok"
             /\ \E j \in Commands : j < i /\ StageAt(j) = "bind"
    /\ \A i, j \in Commands : i < j => Rank(StageAt(i)) < Rank(StageAt(j))
    /\ \A i \in Commands :
          (args.command = "rollback" /\ StageAt(i) # "bind")
          => /\ world[Before(StageAt(i))].exit = "ok"
             /\ \E j \in Commands : j < i /\ StageAt(j) = Before(StageAt(i))

(* a run whose bind fails: the bind is the only command *)
C18_Witness ==
    /\ phase = "done"
    /\ args.command \in {"rollback", "logs"}
    /\ world.bind.exit \in {"nonzero", "notfound"}
    /\ Commands = {2}
    /\ StageAt(2) = "bind"

(* C19: when every stage up to the confirmation is scripted to succeed and *)
(* the rollback and rollout-status processes exit 0, the run reports       *)
(* completion and no failure, whatever the final pod discovery answers     *)
(* (a failure, no pod, or pods).                                           *)
C19_DoneWhateverDiscoveryAnswers ==
    (/\ phase = "done"
     /\ ScriptedToPerform
     /\ world.rollback.exit = "ok"
     /\ world.wait.exit = "ok")
    => (DoneReported /\ ~FailedReported)

(* C20: when confirm is set the confirmation prompt is never shown, and    *)
(* the rollback command is issued in every run in which bind, release      *)
(* lookup, history fetch and target resolution are scripted to succeed.    *)
C20_SkipConfirmationPerforms ==
    (phase = "done" /\ args.confirm)
    => /\ ~Consulted
       /\ ScriptedToPerform => Issued("rollback")

(* the logs command the arguments of the call ask for *)
LogsCommandAsked ==
    <<"kubectl", "logs", Val(args.pod), "-n",
      IF IsNone(args.namespace) THEN args.environment ELSE Val(args.namespace),
      "--tail", ToString(args.lines)>>
    \o (IF args.follow THEN <<"-f">> ELSE <<>>)

(* C21: when a pod name is given, pod discovery is not issued and the      *)
(* selection prompt is not shown; and when the environment is valid and    *)
(* the bind process exits 0, exactly one logs command is issued: it names  *)
(* the given pod unchanged, the tail count of 'lines', and "-f" exactly    *)
(* when follow is set.                                                     *)
C21_ExplicitPodIsStreamed ==
    (phase = "done" /\ ~IsNone(args.pod))
    => /\ ~Issued("pods")
       /\ ~Consulted
       /\ ScriptedToBind
            => /\ TimesIssued("logs") = 1
               /\ \E i \in Commands : out[i].detail = LogsCommandAsked

(* C22: in a rollback, pod discovery is issued only after a rollout-status *)
(* wait whose process exited 0; and when every stage up to the rollback    *)
(* command is scripted to succeed and the wait is scripted to fail, no pod *)
(* discovery is issued and the run ends with the warning and no list of    *)
(* pods.                                                                   *)
C22_DiscoveryOnlyAfterWait ==
    phase = "done"
    => /\ Issued("pods") => (Issued("wait") /\ world.wait.exit = "ok")
       /\ (ScriptedToPerform /\ world.rollback.exit = "ok"
             /\ world.wait.exit # "ok")
            => /\ ~Issued("pods")
               /\ ~Logged("Current pods:")
               /\ Logged("Rollback may have failed - check deployment status")

----------------------------------------------------------------------------
(* One call of either operation on a DevOpsCLI object, with any string as  *)
(* the environment: the callers of the methods are not bound to the        *)
(* choices of the command line.                                            *)
AnyEnvironments == {"dev", "stage", "prod", "qa", "DEV", "prod ", ""}

OpArgs ==
    [op : {"rollback"}, environment : AnyEnvironments, revision : Revisions,
     confirm : BOOLEAN, namespace : Namespaces]
    \cup [op : {"logs"}, environment : AnyEnvironments, follow : BOOLEAN,
          lines : {100}, pod : {None, Some("sample-app-9")},
          namespace : Namespaces]

OpWorlds ==
    {[BaseWorld EXCEPT !.bind = b, !.answer = a] :
        b \in BindResponses, a \in Answers}

InitOp ==
    /\ phase = "idle"
    /\ args \in OpArgs
    /\ world \in OpWorlds
    /\ out = <<>>
    /\ exc = "none"
    /\ res = None

(* cli.rollback_release(environment, revision, confirm, namespace) *)
OpRollback ==
    /\ phase = "idle"
    /\ args.op = "rollback"
    /\ \E st \in {rollback_release(St(<<>>, "none"), args.environment,
                                   args.revision, args.confirm,
                                   args.namespace)} :
           /\ out' = st.out
           /\ exc' = st.exc
    /\ phase' = "done"
    /\ UNCHANGED <<args, world, res>>

(* cli.tail_logs(environment, follow, lines, pod_name, namespace) *)
OpLogs ==
    /\ phase = "idle"
    /\ args.op = "logs"
    /\ \E st \in {tail_logs(St(<<>>, "none"), args.environment, args.follow,
                            args.lines, args.pod, args.namespace)} :
           /\ out' = st.out
           /\ exc' = st.exc
    /\ phase' = "done"
    /\ UNCHANGED <<args, world, res>>

NextOp == OpRollback \/ OpLogs

SpecOp == InitOp /\ [][NextOp]_vars

(* C23: when the environment given to rollback_release or tail_logs is not *)
(* one of dev, stage, prod, the call issues no command at all and ends     *)
(* with an error-level report.                                             *)
C23_InvalidEnvironmentIssuesNothing ==
    (phase = "done" /\ args.environment \notin {"dev", "stage", "prod"})
    => /\ Commands = {}
       /\ Len(out) > 0
       /\ Final.level = "ERROR"
       /\ exc = "none"

(* a logs call for an environment that differs from a valid one by case *)
C23_Witness ==
    /\ phase = "done"
    /\ args.op = "logs"
    /\ args.environment = "DEV"
    /\ Len(out) = 1
    /\ Final.msg = "Invalid environment"
    /\ Final.level = "ERROR"

====
